---- MODULE Spec2Model ----
(***************************************************************************)
(* Model of the radish client: ConnectionPool, PoolObjContext and          *)
(* Connection of radish/client/client.py, run by asyncio tasks.            *)
(*                                                                         *)
(* One action is one run of a task between two suspension points of the   *)
(* event loop.  The suspension points are the awaits that wait for the    *)
(* network or for another task: open_connection, the read of a reply,     *)
(* LifoQueue.get on an empty queue, gather, asyncio.sleep and the await   *)
(* of the idle task.  StreamWriter.drain returns without suspending (the  *)
(* write buffer is below its high-water mark), so a write and the code    *)
(* after it run in the same step.                                          *)
(*                                                                         *)
(* The peer: it accepts every connection; a reply may arrive, the stream  *)
(* may end (EOF or read timeout: RadishConnectionError), and at most      *)
(* MaxRetries attempts of one call are reset (ConnectionResetError).       *)
(*                                                                         *)
(* Six specifications share the module: Spec (the client), SpecLive        *)
(* (the client with guard-using borrowers on a pool nobody closes, with    *)
(* fairness), SpecStore (RadishStore of radish/database/storage.py,        *)
(* called command by command), SpecServer (Handler and Server of           *)
(* radish/database/server.py serving one socket), SpecCodec                *)
(* (_write_response and process_reader of radish/protocol.py over bytes    *)
(* that arrive in chunks) and SpecShared (several handlers on the one      *)
(* store).  Each leaves the variables of the others as they are.           *)
(***************************************************************************)
EXTENDS Integers, Sequences, FiniteSets, TLC

\* ---------------------------------------------------------------- bounds
MaxSize == 2        \* largest max_size a pool is built with
MaxMinSize == 1     \* largest min_size a pool is built with
MaxLazy == 1        \* largest max_size - min_size a pool is built with
NumBorrowers == 2   \* tasks that acquire a connection
NumIniters == 2     \* tasks that call pool._init (await pool / async with pool)
MaxOverlapSize == 1 \* largest max_size with which calls of _init overlap in time
MaxRetries == 2     \* connection resets the peer injects into one call of execute

MaxArgs == 4        \* most arguments of one store command
MaxRequests == 3    \* most requests the peer sends on one socket
NumHandlers == 2    \* handlers that serve the shared store
MaxShared == 3      \* most commands the handlers run on the shared store
MaxCuts == 2        \* most places at which the bytes of a frame are split

NoCon == 0          \* PoolObjContext.pool_obj = None

AllConns == 1..MaxSize
Borrowers == 1..NumBorrowers
Initers == 1..NumIniters
\* pool.close() invocations: 0 is the task that calls pool.close() itself,
\* b > 0 is the call made by borrower b's execute on RadishConnectionError
PoolClosers == 0..NumBorrowers

VARIABLES
    max_size,    \* ConnectionPool(max_size=...)
    min_size,    \* ConnectionPool._min_size
    queue,       \* ConnectionPool._queue (asyncio.LifoQueue), bottom first
    inited,      \* ConnectionPool._inited
    closed,      \* ConnectionPool._closed
    connected,   \* Connection._connected
    acquired,    \* Connection._acquired
    stream,      \* Connection._stream: "none", "open", "wclosed" (writer closed)
    waiting,     \* Connection._waiting, the idle task: "none" (None),
                 \*   "armed" (sleeping), "done" (returned or cancelled:
                 \*   done() holds of both), "failedCE", "failedQF" (ended
                 \*   with the RadishClientError or QueueFull of release)
    bpc,         \* where borrower b is
    bcon,        \* the connection borrower b holds (PoolObjContext.pool_obj),
                 \*   NoCon before the acquire and once the scope is left
    bres,        \* the exception b's last call raised ("ok": it returned)
    retries,     \* depth of the recursion of execute in b's call in flight
    afterClose,  \* history: b's call in flight started with _closed set
    ipc,         \* where initer i is
    ipending,    \* connect tasks of i's gather that have not finished
    upc,         \* where the task calling pool.close() is
    cpc,         \* cpc[k][c]: the cl.close() task of close invocation k for c
    kerr         \* first exception raised by a task of k's gather

VARIABLES
    store,       \* RadishStore._store: a dict, as a function on its keys
    last,        \* the last call of process_command: command, arguments and
                 \*   what it returned or raised; afterMset: the call before
                 \*   it was an MSET that returned
    latest       \* history: for each key the value of the latest SET or MSET
                 \*   pair not followed by DEL or FLUSHDB (NoValue: none)

VARIABLES
    closing_delay,      \* Server.closing_delay is set (not None, not 0)
    active_connections, \* Server.active_connections
    inbox,       \* requests the peer sent that the handler has not decoded
    peer,        \* "open"; "closed": the peer closed its side (EOF follows
                 \*   the requests of inbox)
    hpc,         \* where the handler task is: "new", "read" (suspended in
                 \*   process_reader), "returned" (run returned), "ended"
                 \*   (_start_new_handler returned), "raised"
    hactive,     \* Handler._active (FALSE also stands for None)
    hwait,       \* Handler._wait_closed: "none" (None), "armed", "fired"
    wclosed,     \* writer.close() has been called on the handler's socket
    outbox,      \* the replies written to the socket, in order
    served       \* history: the requests decoded, each with the reply
                 \*   written for it

VARIABLES
    wpc,         \* where the codec round is: "idle", "sent", "decoded"
    sent,        \* what was given to the writer: the value, the exception
                 \*   the writer raised, the bytes that follow the frame,
                 \*   the number of chunks the bytes arrive in
    reader,      \* the StreamReader: buf, its buffer; chunks, the pieces
                 \*   still to arrive, in order, EOF after the last
    got          \* what process_reader returned or raised

VARIABLES
    spc,         \* per handler of the shared store: the command it runs
                 \*   and how far process_command has got with it
    running,     \* the handler whose task the event loop is running, or 0
    slog         \* the commands completed on the shared store, in order
                 \*   of completion, with what each returned

storeVars == <<store, last, latest>>
handlerVars == <<closing_delay, active_connections, inbox, peer, hpc,
                 hactive, hwait, wclosed, outbox, served>>
codecVars == <<wpc, sent, reader, got>>
sharedVars == <<spc, running, slog>>
serverVars == <<storeVars, handlerVars, codecVars, sharedVars>>
clientVars == <<max_size, min_size, queue, inited, closed, connected,
                acquired, stream, waiting, bpc, bcon, bres, retries,
                afterClose, ipc, ipending, upc, cpc, kerr>>

vars == <<clientVars, serverVars>>

poolVars == <<max_size, min_size>>
borrowerVars == <<bpc, bcon, bres, retries, afterClose>>
initVars == <<ipc, ipending>>
closeVars == <<upc, cpc, kerr>>

Conns == 1..max_size

\* ------------------------------------------------------------ the LIFO
\* asyncio.LifoQueue: _put appends, _get pops the last element
\* (variant: a put at the bottom, the discipline of asyncio.Queue read
\* from the other end; used to show that C3 depends on LifoPut)
PutBottom(q, c) == <<c>> \o q
LifoPut(q, c) == Append(q, c)
LifoTop(q) == q[Len(q)]
LifoPop(q) == SubSeq(q, 1, Len(q) - 1)
LifoFull(q) == Len(q) >= max_size
InQueue(q, c) == \E i \in 1..Len(q) : q[i] = c

\* ConnectionPool.__init__: max_size connections, all pushed in order
InitQueue(n) == [i \in 1..n |-> i]

\* self._clients[-self._min_size:] with _clients = [1, .., max_size];
\* Python's [-0:] is [0:], the whole list
WarmSet == IF min_size = 0 THEN 1..max_size
           ELSE {c \in 1..max_size : c > max_size - min_size}

\* (variant: _check_inited without its second test; used to show that C4
\* depends on the test of _closed)
check_inited_only == IF ~inited THEN "ClientError" ELSE "ok"

\* ConnectionPool._check_inited: the exception it raises, or "ok"
check_inited == IF ~inited THEN "ClientError"
                ELSE IF closed THEN "ClientError"
                ELSE "ok"

\* ------------------------------------------------- values of store and wire
\* the byte strings used as keys, values and arguments
Bytes == {"a", "bb"}
ArgLists == UNION {[1..n -> Bytes] : n \in 0..MaxArgs}

\* what a command returns: bytes, int, None or a list of bytes and None
Bulk(s) == [t |-> "bulk", s |-> s, n |-> 0, items |-> <<>>]
IntV(n) == [t |-> "int", s |-> "", n |-> n, items |-> <<>>]
Null == [t |-> "null", s |-> "", n |-> 0, items |-> <<>>]
Arr(xs) == [t |-> "array", s |-> "", n |-> 0, items |-> xs]
\* protocol.Error(message)
Error(m) == [t |-> "error", s |-> m, n |-> 0, items |-> <<>>]

\* RadishStore(): store_obj or {}
EmptyStore == [k \in {} |-> "a"]
NoValue == ""
NoCall == [cmd |-> "", args |-> <<>>, exc |-> "ok", msg |-> "",
           value |-> Null, afterMset |-> FALSE]

StoreInit ==
    /\ store = EmptyStore
    /\ last = NoCall
    /\ latest = [k \in Bytes |-> NoValue]

\* Handler.__init__ and Server.__init__, closing_delay aside
HandlerNew ==
    /\ active_connections = 0
    /\ inbox = <<>>
    /\ peer = "open"
    /\ hpc = "new"
    /\ hactive = FALSE
    /\ hwait = "none"
    /\ wclosed = FALSE
    /\ outbox = <<>>
    /\ served = <<>>

HandlerInit == HandlerNew /\ closing_delay = FALSE

\* ------------------------------------------------------ bytes on the wire
\* A byte string of the codec is a sequence of bytes, a byte a string of
\* one character.
CR == "\r"
LF == "\n"
CRLF == <<CR, LF>>

\* the values _write_response takes and process_reader returns: bytes, int,
\* Error, list, None; "str" and "float" are values of other types.
\* b: the bytes (of bytes, the message of Error) or the characters (of
\* str; a character outside ASCII by its code point, "U+E9"),
\* n: the number, items: the elements of a list
PyBytes(b) == [t |-> "bytes", b |-> b, n |-> 0, items |-> <<>>]
PyInt(n) == [t |-> "int", b |-> <<>>, n |-> n, items |-> <<>>]
PyError(b) == [t |-> "Error", b |-> b, n |-> 0, items |-> <<>>]
PyList(xs) == [t |-> "list", b |-> <<>>, n |-> 0, items |-> xs]
PyNone == [t |-> "None", b |-> <<>>, n |-> 0, items |-> <<>>]
PyStr(b) == [t |-> "str", b |-> b, n |-> 0, items |-> <<>>]
PyFloat == [t |-> "float", b |-> <<>>, n |-> 0, items |-> <<>>]

\* a StreamReader with nothing buffered and nothing to come
NoStream == [buf |-> <<>>, chunks |-> <<>>]

\* nothing written, nothing read
CodecIdle ==
    /\ wpc = "idle"
    /\ sent = [by |-> "", v |-> PyNone, exc |-> "ok", tail |-> <<>>,
               pieces |-> 0]
    /\ reader = NoStream
    /\ got = [exc |-> "", msg |-> "", value |-> PyNone]

\* the handlers of the shared store
SharedHandlers == 1..NumHandlers

\* a handler between two requests
NoCommand == [pc |-> "read", cmd |-> "", args |-> <<>>, i |-> 0,
              value |-> Null]

SharedIdle ==
    /\ spc = [h \in SharedHandlers |-> NoCommand]
    /\ running = 0
    /\ slog = <<>>

ClientInit ==
    /\ max_size \in 1..MaxSize
    /\ min_size \in 0..MaxMinSize
    /\ min_size <= max_size
    /\ max_size - min_size <= MaxLazy
    /\ queue = InitQueue(max_size)
    /\ inited = FALSE
    /\ closed = FALSE
    /\ connected = [c \in AllConns |-> FALSE]
    /\ acquired = [c \in AllConns |-> FALSE]
    /\ stream = [c \in AllConns |-> "none"]
    /\ waiting = [c \in AllConns |-> "none"]
    /\ bpc = [b \in Borrowers |-> "idle"]
    /\ bcon = [b \in Borrowers |-> NoCon]
    /\ bres = [b \in Borrowers |-> "ok"]
    /\ retries = [b \in Borrowers |-> 0]
    /\ afterClose = [b \in Borrowers |-> FALSE]
    /\ ipc = [i \in Initers |-> "idle"]
    /\ ipending = [i \in Initers |-> {}]
    /\ upc = "idle"
    /\ cpc = [k \in PoolClosers |-> [c \in AllConns |-> "none"]]
    /\ kerr = [k \in PoolClosers |-> "none"]

Init == ClientInit /\ StoreInit /\ HandlerInit /\ CodecIdle /\ SharedIdle


\* ------------------------------------------------- Connection, as functions
\* The fields a Connection method reads and writes, as one value, so that
\* the methods a task runs between two suspension points compose.
CS == [queue |-> queue, connected |-> connected, acquired |-> acquired,
       stream |-> stream, waiting |-> waiting]

Commit(s) ==
    /\ queue' = s.queue
    /\ connected' = s.connected
    /\ acquired' = s.acquired
    /\ stream' = s.stream
    /\ waiting' = s.waiting

\* Connection._cancel_inactive: cancel the idle task if it is pending
cancel_inactive(s, c) ==
    IF s.waiting[c] = "armed" THEN [s EXCEPT !.waiting[c] = "done"] ELSE s

\* Connection._wait_inactive: start an idle task unless one is pending
wait_inactive(s, c) ==
    IF s.waiting[c] # "armed" THEN [s EXCEPT !.waiting[c] = "armed"] ELSE s

\* Connection.connect after open_connection returned: the new stream
\* replaces whatever _stream held
connect_done(s, c) ==
    wait_inactive([s EXCEPT !.stream[c] = "open", !.connected[c] = TRUE], c)

\* ConnectionPool.release: the exception it raises ("ok": none).
\* put_nowait raises QueueFull when the LIFO holds maxsize entries.
release_exc(s) ==
    IF check_inited # "ok" THEN check_inited
    ELSE IF LifoFull(s.queue) THEN "QueueFull"
    ELSE "ok"

\* ConnectionPool.release when it raises nothing
release_do(s, c) ==
    [s EXCEPT !.queue = LifoPut(@, c), !.acquired[c] = FALSE]

\* Connection.close from the return of execute(b"QUIT") (QUIT written,
\* writer closed) to the line before `await self._waiting`
close_after_quit(s, c) ==
    IF s.acquired[c]
    THEN IF release_exc(s) = "ok"
         THEN [s |-> [release_do(s, c) EXCEPT !.stream[c] = "none",
                                              !.connected[c] = FALSE],
               exc |-> "ok"]
         ELSE [s |-> [s EXCEPT !.stream[c] = "wclosed"],
               exc |-> release_exc(s)]
    ELSE [s |-> [s EXCEPT !.stream[c] = "none", !.connected[c] = FALSE],
          exc |-> "ok"]

\* `if self._waiting is not None: await self._waiting` with the idle task
\* finished or cancelled: CancelledError is swallowed, the exception of a
\* failed idle task is raised again in the awaiting task
await_waiting(s, c) ==
    CASE s.waiting[c] = "failedCE" -> "ClientError"
      [] s.waiting[c] = "failedQF" -> "QueueFull"
      [] OTHER -> "ok"

\* Connection.close from its first line to its first suspension point.
\* next = "done": close returned or raised exc; "connecting": the QUIT hit
\* a closed writer (ConnectionResetError), execute took the try_reconnect
\* branch and waits in open_connection.
CloseEnter(c) ==
    LET s1 == cancel_inactive(CS, c) IN
    IF ~s1.connected[c]
    THEN [s |-> s1, exc |-> await_waiting(s1, c), next |-> "done"]
    ELSE IF s1.stream[c] = "open"
    THEN LET r == close_after_quit(s1, c) IN
         [s |-> r.s,
          exc |-> IF r.exc # "ok" THEN r.exc ELSE await_waiting(r.s, c),
          next |-> "done"]
    ELSE IF s1.stream[c] = "wclosed"
    THEN [s |-> [s1 EXCEPT !.connected[c] = FALSE], exc |-> "ok",
          next |-> "connecting"]
    ELSE [s |-> s1, exc |-> "AttributeError", next |-> "done"]

\* Connection.close resumed when open_connection returned inside the
\* retried execute(b"QUIT"): connect arms the idle task, QUIT is written to
\* the new stream, and close then awaits the idle task just armed.
CloseConnected(c) ==
    LET r == close_after_quit(connect_done(CS, c), c) IN
    [s |-> r.s, exc |-> r.exc,
     next |-> IF r.exc # "ok" THEN "done" ELSE "awaitw"]

\* ---------------------------------------------------------- the idle task
\* Connection._cancel_task after its sleep: close() cancels the very task
\* that runs it, so the task dies at its first real suspension; without
\* one it runs close to the end.
TimerFire(c) ==
    /\ c \in Conns
    /\ waiting[c] = "armed"
    /\ IF ~connected[c]
       THEN Commit([CS EXCEPT !.waiting[c] = "done"])
       ELSE IF stream[c] = "open"
       THEN LET r == close_after_quit(CS, c) IN
            Commit([r.s EXCEPT !.waiting[c] =
                       CASE r.exc = "ok" -> "done"
                         [] r.exc = "ClientError" -> "failedCE"
                         [] OTHER -> "failedQF"])
       ELSE \* writer already closed: drain yields or raises
            \* ConnectionResetError, then connect yields; either way the
            \* task is cancelled there
            \E dropped \in BOOLEAN :
               Commit([CS EXCEPT !.waiting[c] = "done",
                                 !.connected[c] = IF dropped THEN FALSE ELSE @])
    /\ UNCHANGED <<serverVars, poolVars, inited, closed, borrowerVars, initVars,
                   closeVars>>


\* ------------------------------------------------------------- borrowers
\* ConnectionPool._acquire past _check_inited, with the LIFO not empty:
\* `cl = await self._queue.get()`, `cl._acquired = True`
acquire_do(s) ==
    [s EXCEPT !.queue = LifoPop(@), !.acquired[LifoTop(s.queue)] = TRUE]

Take(b) ==
    /\ bcon' = [bcon EXCEPT ![b] = LifoTop(queue)]
    /\ queue' = acquire_do(CS).queue
    /\ acquired' = acquire_do(CS).acquired
    /\ bpc' = [bpc EXCEPT ![b] = "holding"]

\* ConnectionPool._acquire (PoolObjContext.__aenter__ / __await__)
Acquire(b) ==
    /\ bpc[b] = "idle"
    /\ b > 1 => bpc[b - 1] # "idle"    \* borrowers are numbered as they come
    /\ IF check_inited # "ok"
       THEN /\ bpc' = [bpc EXCEPT ![b] = "error"]
            /\ bres' = [bres EXCEPT ![b] = check_inited]
            /\ UNCHANGED <<queue, acquired, bcon>>
       ELSE IF Len(queue) > 0
       THEN Take(b) /\ UNCHANGED bres
       ELSE /\ bpc' = [bpc EXCEPT ![b] = "blocked"]
            /\ UNCHANGED <<queue, acquired, bcon, bres>>
    /\ UNCHANGED <<serverVars, poolVars, inited, closed, connected, stream, waiting,
                   retries, afterClose, initVars, closeVars>>

\* `await self._queue.get()` resumed: the getter is woken by a put and
\* takes the top; _check_inited is not looked at again
AcquireWake(b) ==
    /\ bpc[b] = "blocked"
    /\ Len(queue) > 0
    /\ Take(b)
    /\ UNCHANGED <<serverVars, poolVars, inited, closed, connected, stream, waiting,
                   bres, retries, afterClose, initVars, closeVars>>

\* Connection.execute(*args), args[0] # b"QUIT": process_writer on the
\* connected stream s.stream[c]. "reading": written, the task waits in
\* process_reader; "connecting": ConnectionError, try_reconnect, the
\* recursive execute waits in open_connection.
\* reset: the peer resets this write.
Write(s, c, reset) ==
    IF s.stream[c] = "open" /\ ~reset
    THEN [s |-> s, next |-> "reading"]
    ELSE [s |-> cancel_inactive([s EXCEPT !.connected[c] = FALSE], c),
          next |-> "connecting"]

\* the peer may reset an attempt of b's call while the call's budget lasts
MayReset(b) == {r \in BOOLEAN : r => retries[b] < MaxRetries}

\* Connection.execute from its first line to its first suspension point
ExecStart(b) ==
    /\ bpc[b] = "holding"
    /\ LET c == bcon[b]
           s1 == cancel_inactive(CS, c)
       IN
       /\ afterClose' = [afterClose EXCEPT ![b] = closed]
       /\ bres' = [bres EXCEPT ![b] = "ok"]
       /\ IF ~s1.connected[c]
          THEN /\ Commit(s1)
               /\ bpc' = [bpc EXCEPT ![b] = "connecting"]
               /\ retries' = [retries EXCEPT ![b] = 0]
          ELSE \E reset \in MayReset(b) :
                  LET w == Write(s1, c, reset) IN
                  /\ Commit(w.s)
                  /\ bpc' = [bpc EXCEPT ![b] = w.next]
                  /\ retries' = [retries EXCEPT ![b] =
                                    IF w.next = "connecting" THEN 1 ELSE 0]
    /\ UNCHANGED <<serverVars, poolVars, inited, closed, bcon, initVars, closeVars>>

\* Connection.connect resumed inside execute, then process_writer
ExecConnected(b) ==
    /\ bpc[b] = "connecting"
    /\ \E reset \in MayReset(b) :
          LET c == bcon[b]
              w == Write(connect_done(CS, c), c, reset)
          IN
          /\ Commit(w.s)
          /\ bpc' = [bpc EXCEPT ![b] = w.next]
          /\ retries' = [retries EXCEPT ![b] =
                            IF w.next = "connecting" THEN @ + 1 ELSE @]
    /\ UNCHANGED <<serverVars, poolVars, inited, closed, bcon, bres, afterClose,
                   initVars, closeVars>>

\* process_reader returned a reply: _wait_inactive, return resp
ExecReply(b) ==
    /\ bpc[b] = "reading"
    /\ Commit(wait_inactive(CS, bcon[b]))
    /\ bpc' = [bpc EXCEPT ![b] = "holding"]
    /\ bres' = [bres EXCEPT ![b] = "ok"]
    /\ retries' = [retries EXCEPT ![b] = 0]
    /\ afterClose' = [afterClose EXCEPT ![b] = FALSE]
    /\ UNCHANGED <<serverVars, poolVars, inited, closed, bcon, initVars, closeVars>>

\* process_reader raised ConnectionResetError: `except ConnectionError`,
\* try_reconnect, execute again
ExecReadReset(b) ==
    /\ bpc[b] = "reading"
    /\ retries[b] < MaxRetries
    /\ Commit(cancel_inactive([CS EXCEPT !.connected[bcon[b]] = FALSE],
                              bcon[b]))
    /\ bpc' = [bpc EXCEPT ![b] = "connecting"]
    /\ retries' = [retries EXCEPT ![b] = @ + 1]
    /\ UNCHANGED <<serverVars, poolVars, inited, closed, bcon, bres, afterClose,
                   initVars, closeVars>>

\* Connection.execute(b"QUIT") on a connected stream (CommandsMixin.quit):
\* on an open writer QUIT is written and the writer closed, _connected is
\* left as it is; on a closed writer drain raises ConnectionResetError and
\* execute takes the try_reconnect branch
WriteQuit(s, c) ==
    IF s.stream[c] = "open"
    THEN [s |-> [s EXCEPT !.stream[c] = "wclosed"], next |-> "holding"]
    ELSE [s |-> cancel_inactive([s EXCEPT !.connected[c] = FALSE], c),
          next |-> "quit_connecting"]

\* con.quit() by the borrower, to its first suspension point or its return
ExecQuit(b) ==
    /\ bpc[b] = "holding"
    /\ LET c == bcon[b]
           s1 == cancel_inactive(CS, c)
           w == WriteQuit(s1, c)
       IN
       IF ~s1.connected[c]
       THEN /\ Commit(s1)
            /\ bpc' = [bpc EXCEPT ![b] = "quit_connecting"]
            /\ afterClose' = [afterClose EXCEPT ![b] = closed]
            /\ UNCHANGED retries
       ELSE /\ Commit(w.s)
            /\ bpc' = [bpc EXCEPT ![b] = w.next]
            /\ retries' = [retries EXCEPT ![b] =
                              IF w.next = "holding" THEN 0 ELSE 1]
            /\ afterClose' = [afterClose EXCEPT ![b] =
                                 IF w.next = "holding" THEN FALSE ELSE closed]
    /\ bres' = [bres EXCEPT ![b] = "ok"]
    /\ UNCHANGED <<serverVars, poolVars, inited, closed, bcon, initVars, closeVars>>

\* Connection.connect resumed inside execute(b"QUIT"): QUIT goes to the new
\* stream, the writer is closed, None is returned
ExecQuitConnected(b) ==
    /\ bpc[b] = "quit_connecting"
    /\ Commit(WriteQuit(connect_done(CS, bcon[b]), bcon[b]).s)
    /\ bpc' = [bpc EXCEPT ![b] = "holding"]
    /\ retries' = [retries EXCEPT ![b] = 0]
    /\ afterClose' = [afterClose EXCEPT ![b] = FALSE]
    /\ UNCHANGED <<serverVars, poolVars, inited, closed, bcon, bres, initVars, closeVars>>

\* ConnectionPool.close from its first line to its gather: the exception
\* _check_inited raises, or one close task per client
Gather(k) == [cpc EXCEPT ![k] = [c \in AllConns |->
                                    IF c \in Conns THEN "ready" ELSE "none"]]

\* process_reader raised RadishConnectionError (timeout or EOF):
\* `await self._pool.close()`, then raise RadishClientError
ExecReadEOF(b) ==
    /\ bpc[b] = "reading"
    /\ IF check_inited # "ok"
       THEN /\ bpc' = [bpc EXCEPT ![b] = "failed"]
            /\ bres' = [bres EXCEPT ![b] = check_inited]
            /\ UNCHANGED <<cpc, kerr>>
       ELSE /\ bpc' = [bpc EXCEPT ![b] = "pclose"]
            /\ cpc' = Gather(b)
            /\ kerr' = [kerr EXCEPT ![b] = "none"]
            /\ UNCHANGED bres
    /\ retries' = [retries EXCEPT ![b] = 0]
    /\ afterClose' = [afterClose EXCEPT ![b] = FALSE]
    /\ UNCHANGED <<serverVars, poolVars, queue, inited, closed, connected, acquired,
                   stream, waiting, bcon, initVars, upc>>

\* ConnectionPool.release(con) called by the borrower itself
Release(b) ==
    /\ bpc[b] = "holding"
    /\ LET e == release_exc(CS) IN
       /\ Commit(IF e = "ok" THEN release_do(CS, bcon[b]) ELSE CS)
       /\ bres' = [bres EXCEPT ![b] = e]
    /\ bpc' = [bpc EXCEPT ![b] = "released"]
    /\ bcon' = [bcon EXCEPT ![b] = NoCon]
    /\ UNCHANGED <<serverVars, poolVars, inited, closed, retries, afterClose, initVars,
                   closeVars>>

\* PoolObjContext.__aexit__ (or con.close() by the borrower): the scope is
\* left after a call returned or raised
GuardExit(b) ==
    /\ bpc[b] \in {"holding", "failed"}
    /\ LET r == CloseEnter(bcon[b]) IN
       /\ Commit(r.s)
       /\ bpc' = [bpc EXCEPT ![b] =
                     IF r.next = "done" THEN "exited" ELSE "close_connecting"]
       /\ bcon' = [bcon EXCEPT ![b] = IF r.next = "done" THEN NoCon ELSE @]
       /\ bres' = [bres EXCEPT ![b] = r.exc]
    /\ UNCHANGED <<serverVars, poolVars, inited, closed, retries, afterClose, initVars,
                   closeVars>>

GuardExitConnected(b) ==
    /\ bpc[b] = "close_connecting"
    /\ LET r == CloseConnected(bcon[b]) IN
       /\ Commit(r.s)
       /\ bpc' = [bpc EXCEPT ![b] =
                     IF r.next = "done" THEN "exited" ELSE "close_awaitw"]
       /\ bcon' = [bcon EXCEPT ![b] = IF r.next = "done" THEN NoCon ELSE @]
       /\ bres' = [bres EXCEPT ![b] = r.exc]
    /\ UNCHANGED <<serverVars, poolVars, inited, closed, retries, afterClose, initVars,
                   closeVars>>

GuardExitAwaited(b) ==
    /\ bpc[b] = "close_awaitw"
    /\ waiting[bcon[b]] # "armed"
    /\ bpc' = [bpc EXCEPT ![b] = "exited"]
    /\ bres' = [bres EXCEPT ![b] = await_waiting(CS, bcon[b])]
    /\ bcon' = [bcon EXCEPT ![b] = NoCon]
    /\ UNCHANGED <<serverVars, poolVars, queue, inited, closed, connected, acquired,
                   stream, waiting, retries, afterClose, initVars,
                   closeVars>>


\* ------------------------------------------------------ ConnectionPool._init
\* _init up to its gather: what a call does in the current state
init_outcome == IF inited THEN "returned"
                ELSE IF closed THEN "raised"
                ELSE "gather"

\* _init from its first line to its gather.  Initer 1 calls _init, and may
\* call it again once a call returned; initer i + 1 makes a call that
\* overlaps the call of initer i.
InitStart(i) ==
    /\ IF i = 1
       THEN ipc[i] \in {"idle", "returned"}
       ELSE /\ ipc[i] = "idle"
            /\ ipc[i - 1] = "gather"
            /\ max_size <= MaxOverlapSize
    /\ ipc' = [ipc EXCEPT ![i] = init_outcome]
    /\ ipending' = [ipending EXCEPT ![i] =
                        IF init_outcome = "gather" THEN WarmSet ELSE @]
    /\ UNCHANGED <<serverVars, poolVars, queue, inited, closed, connected, acquired,
                   stream, waiting, borrowerVars, closeVars>>

\* one cl.connect() task of _init's gather, run to its end
InitConnect(i, c) ==
    /\ ipc[i] = "gather"
    /\ c \in ipending[i]
    /\ Commit(connect_done(cancel_inactive(CS, c), c))
    /\ ipending' = [ipending EXCEPT ![i] = @ \ {c}]
    /\ UNCHANGED <<serverVars, poolVars, inited, closed, borrowerVars, ipc, closeVars>>

\* gather returned: self._inited = True
InitDone(i) ==
    /\ ipc[i] = "gather"
    /\ ipending[i] = {}
    /\ inited' = TRUE
    /\ ipc' = [ipc EXCEPT ![i] = "returned"]
    /\ UNCHANGED <<serverVars, poolVars, queue, closed, connected, acquired, stream,
                   waiting, borrowerVars, ipending, closeVars>>

\* ------------------------------------------------------ ConnectionPool.close
\* pool.close() called by a task of its own (async with pool / await)
PoolCloseStart ==
    /\ upc = "idle"
    /\ IF check_inited # "ok"
       THEN upc' = "raised" /\ UNCHANGED <<cpc, kerr>>
       ELSE /\ upc' = "gather"
            /\ cpc' = Gather(0)
            /\ kerr' = [kerr EXCEPT ![0] = "none"]
    /\ UNCHANGED <<serverVars, poolVars, queue, inited, closed, connected, acquired,
                   stream, waiting, borrowerVars, initVars>>

\* the task that awaits k's gather is suspended in it
InGather(k) == IF k = 0 THEN upc = "gather" ELSE bpc[k] = "pclose"

\* the exception of a finished close task reaches gather, if it still waits
Raised(k, e) == IF e # "ok" /\ kerr[k] = "none" /\ InGather(k)
                THEN [kerr EXCEPT ![k] = e] ELSE kerr

\* one cl.close() task of close's gather, to its first suspension point
ChildClose(k, c) ==
    /\ cpc[k][c] = "ready"
    /\ LET r == CloseEnter(c) IN
       /\ Commit(r.s)
       /\ cpc' = [cpc EXCEPT ![k][c] =
                     IF r.next = "done" THEN "none" ELSE "connecting"]
       /\ kerr' = Raised(k, r.exc)
    /\ UNCHANGED <<serverVars, poolVars, inited, closed, borrowerVars, initVars, upc>>

ChildConnected(k, c) ==
    /\ cpc[k][c] = "connecting"
    /\ LET r == CloseConnected(c) IN
       /\ Commit(r.s)
       /\ cpc' = [cpc EXCEPT ![k][c] =
                     IF r.next = "done" THEN "none" ELSE "awaitw"]
       /\ kerr' = Raised(k, r.exc)
    /\ UNCHANGED <<serverVars, poolVars, inited, closed, borrowerVars, initVars, upc>>

ChildAwaited(k, c) ==
    /\ cpc[k][c] = "awaitw"
    /\ waiting[c] # "armed"
    /\ cpc' = [cpc EXCEPT ![k][c] = "none"]
    /\ kerr' = Raised(k, await_waiting(CS, c))
    /\ UNCHANGED <<serverVars, poolVars, queue, inited, closed, connected, acquired,
                   stream, waiting, borrowerVars, initVars, upc>>

AllClosed(k) == \A c \in Conns : cpc[k][c] = "none"

\* gather returned: self._closed = True; in execute, then
\* raise RadishClientError(e.msg)
PoolCloseDone(k) ==
    /\ InGather(k)
    /\ AllClosed(k)
    /\ kerr[k] = "none"
    /\ closed' = TRUE
    /\ IF k = 0
       THEN upc' = "done" /\ UNCHANGED <<bpc, bres>>
       ELSE /\ bpc' = [bpc EXCEPT ![k] = "failed"]
            /\ bres' = [bres EXCEPT ![k] = "ClientError"]
            /\ UNCHANGED upc
    /\ UNCHANGED <<serverVars, poolVars, queue, inited, connected, acquired, stream,
                   waiting, bcon, retries, afterClose, initVars, cpc, kerr>>

\* gather raised the first exception of its tasks: close, and the execute
\* that called it, end with that exception; _closed is not set
PoolCloseRaise(k) ==
    /\ InGather(k)
    /\ kerr[k] # "none"
    /\ IF k = 0
       THEN upc' = "raised" /\ UNCHANGED <<bpc, bres>>
       ELSE /\ bpc' = [bpc EXCEPT ![k] = "failed"]
            /\ bres' = [bres EXCEPT ![k] = kerr[k]]
            /\ UNCHANGED upc
    /\ kerr' = [kerr EXCEPT ![k] = "none"]
    /\ UNCHANGED <<serverVars, poolVars, queue, inited, closed, connected, acquired,
                   stream, waiting, bcon, retries, afterClose, initVars,
                   cpc>>

\* ----------------------------------------------------------- specification
Next ==
    \/ \E b \in Borrowers : Acquire(b)
    \/ \E b \in Borrowers : AcquireWake(b)
    \/ \E b \in Borrowers : ExecStart(b)
    \/ \E b \in Borrowers : ExecConnected(b)
    \/ \E b \in Borrowers : ExecReply(b)
    \/ \E b \in Borrowers : ExecReadReset(b)
    \/ \E b \in Borrowers : ExecReadEOF(b)
    \/ \E b \in Borrowers : ExecQuit(b)
    \/ \E b \in Borrowers : ExecQuitConnected(b)
    \/ \E b \in Borrowers : Release(b)
    \/ \E b \in Borrowers : GuardExit(b)
    \/ \E b \in Borrowers : GuardExitConnected(b)
    \/ \E b \in Borrowers : GuardExitAwaited(b)
    \/ \E c \in AllConns : TimerFire(c)
    \/ \E i \in Initers : InitStart(i)
    \/ \E i \in Initers, c \in AllConns : InitConnect(i, c)
    \/ \E i \in Initers : InitDone(i)
    \/ PoolCloseStart
    \/ \E k \in PoolClosers, c \in AllConns : ChildClose(k, c)
    \/ \E k \in PoolClosers, c \in AllConns : ChildConnected(k, c)
    \/ \E k \in PoolClosers, c \in AllConns : ChildAwaited(k, c)
    \/ \E k \in PoolClosers : PoolCloseDone(k)
    \/ \E k \in PoolClosers : PoolCloseRaise(k)

Spec == Init /\ [][Next]_vars

\* ------------------------------------------------ a pool that is not closed
\* The client with borrowers that use the guard (async with pool.acquire())
\* on a pool nobody closes and a peer that answers every request: no
\* pool.close(), no direct release, no reset and no EOF.
NextLive ==
    \/ \E b \in Borrowers : Acquire(b)
    \/ \E b \in Borrowers : AcquireWake(b)
    \/ \E b \in Borrowers : ExecStart(b)
    \/ \E b \in Borrowers : ExecConnected(b)
    \/ \E b \in Borrowers : ExecReply(b)
    \/ \E b \in Borrowers : GuardExit(b)
    \/ \E c \in AllConns : TimerFire(c)
    \/ \E i \in Initers : InitStart(i)
    \/ \E i \in Initers, c \in AllConns : InitConnect(i, c)
    \/ \E i \in Initers : InitDone(i)

\* What the event loop and the peer guarantee: a woken getter runs, a
\* connect and a reply arrive, a sleep ends, a gather returns; and every
\* borrower leaves its guard scope in the end (strong fairness: the scope
\* is not left while a call of execute is under way).
LiveFairness ==
    /\ \A b \in Borrowers :
          /\ WF_vars(AcquireWake(b))
          /\ WF_vars(ExecConnected(b))
          /\ WF_vars(ExecReply(b))
          /\ SF_vars(GuardExit(b))
    /\ \A c \in AllConns : WF_vars(TimerFire(c))
    /\ \A i \in Initers :
          /\ WF_vars(InitDone(i))
          /\ \A c \in AllConns : WF_vars(InitConnect(i, c))

SpecLive == Init /\ [][NextLive]_vars /\ LiveFairness

\* ============================================================ RadishStore
\* what a call of a store command does: the exception it raises ("ok":
\* none) with its message, the value it returns, the dict it leaves
Ok(st, v) == [exc |-> "ok", msg |-> "", value |-> v, store |-> st]
BadRequest(st, m) ==
    [exc |-> "BadRequest", msg |-> m, value |-> Null, store |-> st]
ConnectionError(st, m) ==
    [exc |-> "ConnectionError", msg |-> m, value |-> Null, store |-> st]
\* Python binds the arguments before the body runs: too many for the
\* signature is a TypeError
TypeError(st) == [exc |-> "TypeError", msg |-> "", value |-> Null, store |-> st]

\* dict.get(key): the value, None when the key is absent
dict_get(st, k) == IF k \in DOMAIN st THEN Bulk(st[k]) ELSE Null
\* dict[key] = val
dict_set(st, k, v) ==
    [x \in DOMAIN st \cup {k} |-> IF x = k THEN v ELSE st[x]]
\* del dict[key], the key present
dict_del(st, k) == [x \in DOMAIN st \ {k} |-> st[x]]

\* RadishStore.get
get(st, args) ==
    IF Len(args) # 1
    THEN BadRequest(st, "Wrong number of arguments for GET")
    ELSE Ok(st, dict_get(st, args[1]))

\* (variant: a set that stores nothing; used to show that C15 and C18
\* depend on the write of set)
set_nothing(st, args) ==
    IF Len(args) # 2
    THEN BadRequest(st, "Wrong number of arguments for SET")
    ELSE Ok(st, IntV(1))

\* RadishStore.set; the arguments are bytes, which set stores as they are
set(st, args) ==
    IF Len(args) # 2
    THEN BadRequest(st, "Wrong number of arguments for SET")
    ELSE Ok(dict_set(st, args[1], args[2]), IntV(1))

\* (variant: a delete that reports but keeps the key; used to show that
\* C16 depends on the del of delete)
delete_keeps(st, args) ==
    IF Len(args) # 1
    THEN BadRequest(st, "Wrong number of arguments for GET")
    ELSE IF args[1] \in DOMAIN st THEN Ok(st, IntV(1)) ELSE Ok(st, IntV(0))

\* RadishStore.delete (its message names GET)
delete(st, args) ==
    IF Len(args) # 1
    THEN BadRequest(st, "Wrong number of arguments for GET")
    ELSE IF args[1] \in DOMAIN st
         THEN Ok(dict_del(st, args[1]), IntV(1))
         ELSE Ok(st, IntV(0))

\* (variant: a flush that counts after the clear; used to show that C17
\* depends on the order of len and clear)
flush_late_count(st, args) ==
    IF Len(args) # 0 THEN TypeError(st) ELSE Ok(EmptyStore, IntV(0))

\* RadishStore.flush(self): it takes no argument
flush(st, args) ==
    IF Len(args) # 0
    THEN TypeError(st)
    ELSE Ok(EmptyStore, IntV(Cardinality(DOMAIN st)))

\* RadishStore.exists
exists(st, args) ==
    IF Len(args) = 0
    THEN BadRequest(st, "Wrong number of arguments for EXISTS")
    ELSE Ok(st, IntV(Cardinality({i \in 1..Len(args) :
                                     args[i] \in DOMAIN st})))

\* RadishStore.echo
echo(st, args) ==
    IF Len(args) = 0
    THEN BadRequest(st, "Wrong number of arguments for ECHO")
    ELSE Ok(st, Bulk(args[1]))

\* RadishStore.ping
ping(st, args) ==
    IF Len(args) = 0 THEN Ok(st, Bulk("PONG")) ELSE Ok(st, Bulk(args[1]))

\* RadishStore.quit
quit(st, args) == ConnectionError(st, "QUIT command")

\* the loop of mset: self.set(key, val) for the pairs from the i-th on
RECURSIVE mset_pairs(_, _, _)
mset_pairs(st, args, i) ==
    IF 2 * i > Len(args) THEN st
    ELSE mset_pairs(set(st, <<args[2 * i - 1], args[2 * i]>>).store,
                    args, i + 1)

\* (variant: an mget that answers every position with the first key; used
\* to show that C18 depends on the order of mget's list)
mget_first(st, args) ==
    IF Len(args) = 0
    THEN BadRequest(st, "Wrong number of arguments for MGET")
    ELSE Ok(st, Arr([i \in 1..Len(args) |-> dict_get(st, args[1])]))

\* (variant: an mset that writes the complete pairs before it looks at the
\* count; used to show that C19 depends on the order of check and writes)
mset_writes_first(st, args) ==
    IF Len(args) = 0 \/ Len(args) % 2 # 0
    THEN BadRequest(mset_pairs(st, args, 1),
                    "Wrong number of arguments for MSET")
    ELSE Ok(mset_pairs(st, args, 1), Bulk("OK"))

\* RadishStore.mset
mset(st, args) ==
    IF Len(args) = 0 \/ Len(args) % 2 # 0
    THEN BadRequest(st, "Wrong number of arguments for MSET")
    ELSE Ok(mset_pairs(st, args, 1), Bulk("OK"))

\* RadishStore.mget
mget(st, args) ==
    IF Len(args) = 0
    THEN BadRequest(st, "Wrong number of arguments for MGET")
    ELSE Ok(st, Arr([i \in 1..Len(args) |-> dict_get(st, args[i])]))

\* RadishStore.strlen; every stored value is bytes, so len raises nothing
strlen(st, args) ==
    IF Len(args) # 1
    THEN BadRequest(st, "Wrong number of arguments for STRLEN")
    ELSE IF args[1] \in DOMAIN st
         THEN Ok(st, IntV(Len(st[args[1]])))
         ELSE Ok(st, IntV(0))

\* the keys of RadishStore.commands
Commands == {"GET", "SET", "DEL", "FLUSHDB", "EXISTS", "ECHO", "PING",
             "QUIT", "MGET", "MSET", "STRLEN"}
\* the command names sent: the keys, one in lower case, one unknown
CommandNames == Commands \cup {"get", "BAD"}
\* bytes.upper on the names sent
upper(c) == IF c = "get" THEN "GET" ELSE c

\* RadishStore.process_command
process_command(st, command, args) ==
    LET c == upper(command) IN
    CASE c = "GET" -> get(st, args)
      [] c = "SET" -> set(st, args)
      [] c = "DEL" -> delete(st, args)
      [] c = "FLUSHDB" -> flush(st, args)
      [] c = "EXISTS" -> exists(st, args)
      [] c = "ECHO" -> echo(st, args)
      [] c = "PING" -> ping(st, args)
      [] c = "QUIT" -> quit(st, args)
      [] c = "MGET" -> mget(st, args)
      [] c = "MSET" -> mset(st, args)
      [] c = "STRLEN" -> strlen(st, args)
      [] OTHER -> BadRequest(st, "Bad command")

\* history: the latest SET or MSET value of each key after a call that
\* returned; DEL and FLUSHDB forget
RECURSIVE latest_pairs(_, _, _)
latest_pairs(l, args, i) ==
    IF 2 * i > Len(args) THEN l
    ELSE latest_pairs([l EXCEPT ![args[2 * i - 1]] = args[2 * i]],
                      args, i + 1)

latest_after(l, command, args) ==
    LET c == upper(command) IN
    CASE c = "SET" -> [l EXCEPT ![args[1]] = args[2]]
      [] c = "MSET" -> latest_pairs(l, args, 1)
      [] c = "DEL" -> [l EXCEPT ![args[1]] = NoValue]
      [] c = "FLUSHDB" -> [k \in Bytes |-> NoValue]
      [] OTHER -> l

\* one call of process_command on the store
ProcessCommand(command, args) ==
    LET r == process_command(store, command, args) IN
    /\ store' = r.store
    /\ last' = [cmd |-> command, args |-> args, exc |-> r.exc,
                msg |-> r.msg, value |-> r.value,
                afterMset |-> (upper(last.cmd) = "MSET" /\ last.exc = "ok")]
    /\ latest' = IF r.exc = "ok" THEN latest_after(latest, command, args)
                 ELSE latest
    /\ UNCHANGED <<clientVars, codecVars, sharedVars, handlerVars>>

\* the pool of the idle client: one connection
InitStore ==
    /\ ClientInit /\ max_size = 1 /\ min_size = 1
    /\ StoreInit
    /\ HandlerInit
    /\ CodecIdle
    /\ SharedIdle

NextStore ==
    \E command \in CommandNames, args \in ArgLists :
       ProcessCommand(command, args)

SpecStore == InitStore /\ [][NextStore]_vars

\* ================================================== Handler and Server
\* One socket.  The peer sends requests, which wait in the reader's buffer
\* until the handler decodes them, and may close its side.  A request is
\* what process_reader makes of its bytes:
\*   "array"   a list whose first element is the command,
\*   "notlist" a value that is no list (a bulk string),
\*   "empty"   the empty list,
\*   "nullarray" the list [None] that _process_array makes of "*-1",
\*   "intfirst" a list whose first element is an integer,
\*   "badbyte" bytes whose first byte is no RESP type (process_reader
\*             raises RadishBadRequest).
Request(kind, cmd, args) == [kind |-> kind, cmd |-> cmd, args |-> args]
Requests ==
    {Request("array", "SET", <<"a", "bb">>),
     Request("array", "SET", <<"a">>),
     Request("array", "GET", <<"a">>),
     Request("array", "GET", <<>>),
     Request("array", "FLUSHDB", <<>>),
     Request("array", "FLUSHDB", <<"a">>),
     Request("array", "BAD", <<>>),
     Request("array", "QUIT", <<>>),
     Request("array", "QUIT", <<"a">>),
     Request("notlist", "", <<>>),
     Request("empty", "", <<>>),
     Request("nullarray", "", <<>>),
     Request("intfirst", "", <<>>),
     Request("badbyte", "", <<>>)}

\* no reply written for a request
NoReply == [t |-> "none", s |-> "", n |-> 0, items |-> <<>>]

\* command.upper() on a command that is no byte string
AttributeError(st) ==
    [exc |-> "AttributeError", msg |-> "", value |-> Null, store |-> st]

\* Handler._wait_inactive: the value of _wait_closed it leaves
h_wait_inactive(w) == IF closing_delay /\ w = "none" THEN "armed" ELSE w
\* Handler._cancel_inactive
h_cancel_inactive(w) == "none"

\* (variant: a close_connection that forgets the writer; used to show that
\* C14 depends on writer.close())
close_connection_flag_only(active, wc) ==
    [active |-> FALSE, wclosed |-> wc]

\* Handler.close_connection: _active and the writer's state after it
close_connection(active, wc) ==
    IF active THEN [active |-> FALSE, wclosed |-> TRUE]
    ELSE [active |-> active, wclosed |-> wc]

\* the try block of Handler.run from the decoded request on: what the
\* store call raises or returns for it
dispatch(st, r) ==
    CASE r.kind = "badbyte" -> BadRequest(st, "Bad first byte")
      [] r.kind = "notlist" -> BadRequest(st, "Bad request format")
      [] r.kind = "empty" -> TypeError(st)
      [] r.kind \in {"nullarray", "intfirst"} -> AttributeError(st)
      [] OTHER -> process_command(st, r.cmd, r.args)

\* (variant: a handler that treats RadishBadRequest like a connection
\* error; used to show that C13 depends on the except clause)
outcome_bad_request_closes(res) ==
    CASE res.exc = "ok" -> [act |-> "write", answer |-> res.value]
      [] res.exc \in {"ConnectionError", "BadRequest"} ->
            [act |-> "close", answer |-> NoReply]
      [] OTHER -> [act |-> "raise", answer |-> NoReply]

\* the except clauses of Handler.run: write an answer, close and break, or
\* let the exception out of run
outcome(res) ==
    CASE res.exc = "ok" -> [act |-> "write", answer |-> res.value]
      [] res.exc = "BadRequest" ->
            [act |-> "write", answer |-> Error(res.msg)]
      [] res.exc = "ConnectionError" -> [act |-> "close", answer |-> NoReply]
      [] OTHER -> [act |-> "raise", answer |-> NoReply]

\* Server._start_new_handler up to the first suspension of Handler.run
HandlerStart ==
    /\ hpc = "new"
    /\ active_connections' = active_connections + 1
    /\ hactive' = TRUE
    /\ hwait' = h_wait_inactive(hwait)
    /\ hpc' = "read"
    /\ UNCHANGED <<clientVars, codecVars, sharedVars, storeVars, closing_delay, inbox, peer,
                   wclosed, outbox, served>>

\* the peer sends one more request; nothing arrives on a closed socket
PeerSend(r) ==
    /\ peer = "open"
    /\ ~wclosed
    /\ Len(served) + Len(inbox) < MaxRequests
    /\ inbox' = Append(inbox, r)
    /\ UNCHANGED <<clientVars, codecVars, sharedVars, storeVars, closing_delay, active_connections,
                   peer, hpc, hactive, hwait, wclosed, outbox, served>>

\* the peer closes its side
PeerClose ==
    /\ peer = "open"
    /\ peer' = "closed"
    /\ UNCHANGED <<clientVars, codecVars, sharedVars, storeVars, closing_delay, active_connections,
                   inbox, hpc, hactive, hwait, wclosed, outbox, served>>

\* Handler.run resumed with a request decoded (or rejected) by
\* process_reader, to its next suspension in process_reader or to its end.
\* process_writer on a socket that close_connection closed writes nothing
\* and its drain raises ConnectionResetError out of run.
Serve ==
    /\ hpc = "read"
    /\ inbox # <<>>
    /\ LET r == Head(inbox)
           res == dispatch(store, r)
           o == outcome(res)
           w == IF r.kind = "badbyte" THEN hwait ELSE h_cancel_inactive(hwait)
           written == o.act = "write" /\ ~wclosed
           cl == close_connection(hactive, wclosed)
       IN
       /\ inbox' = Tail(inbox)
       /\ store' = res.store
       /\ served' = Append(served,
                       [req |-> r, open |-> ~wclosed, timer |-> w,
                        reply |-> IF written THEN o.answer ELSE NoReply])
       /\ outbox' = IF written THEN Append(outbox, o.answer) ELSE outbox
       /\ IF o.act = "close"
          THEN /\ hactive' = cl.active
               /\ wclosed' = cl.wclosed
               /\ hwait' = w
               /\ hpc' = "returned"
          ELSE IF written /\ hactive
          THEN /\ hwait' = h_wait_inactive(w)
               /\ hpc' = "read"
               /\ UNCHANGED <<hactive, wclosed>>
          ELSE /\ hwait' = w
               /\ hpc' = IF written THEN "returned" ELSE "raised"
               /\ UNCHANGED <<hactive, wclosed>>
    /\ UNCHANGED <<clientVars, codecVars, sharedVars, last, latest, closing_delay,
                   active_connections, peer>>

\* process_reader raises RadishConnectionError with nothing to decode: the
\* first byte did not come within CLIENT_CONNECTION_TIMEOUT, or the stream
\* is at EOF (the peer closed, or the handler's own socket was closed)
ReadFails ==
    /\ hpc = "read"
    /\ inbox = <<>>
    /\ hactive' = close_connection(hactive, wclosed).active
    /\ wclosed' = close_connection(hactive, wclosed).wclosed
    /\ hpc' = "returned"
    /\ UNCHANGED <<clientVars, codecVars, sharedVars, storeVars, closing_delay, active_connections,
                   inbox, peer, hwait, outbox, served>>

\* loop.call_later(closing_delay, self.close_connection) comes due
HandlerTimer ==
    /\ hwait = "armed"
    /\ hwait' = "fired"
    /\ hactive' = close_connection(hactive, wclosed).active
    /\ wclosed' = close_connection(hactive, wclosed).wclosed
    /\ UNCHANGED <<clientVars, codecVars, sharedVars, storeVars, closing_delay, active_connections,
                   inbox, peer, hpc, outbox, served>>

\* Server._start_new_handler after handler.run() returned
HandlerEnd ==
    /\ hpc = "returned"
    /\ active_connections' = active_connections - 1
    /\ hpc' = "ended"
    /\ UNCHANGED <<clientVars, codecVars, sharedVars, storeVars, closing_delay, inbox, peer,
                   hactive, hwait, wclosed, outbox, served>>

InitServer ==
    /\ ClientInit /\ max_size = 1 /\ min_size = 1
    /\ StoreInit
    /\ HandlerNew
    /\ CodecIdle
    /\ SharedIdle
    /\ closing_delay \in BOOLEAN

NextServer ==
    \/ HandlerStart
    \/ \E r \in Requests : PeerSend(r)
    \/ PeerClose
    \/ Serve
    \/ ReadFails
    \/ HandlerTimer
    \/ HandlerEnd

SpecServer == InitServer /\ [][NextServer]_vars

\* ================================================================ the codec
\* protocol.py over byte sequences: _write_response builds the frame,
\* process_reader reads it back from a StreamReader whose data arrives in
\* chunks.

Digit(d) == <<"0", "1", "2", "3", "4", "5", "6", "7", "8", "9">>[d + 1]
IsDigit(c) == \E d \in 0..9 : Digit(d) = c
DigitValue(c) == CHOOSE d \in 0..9 : Digit(d) = c

RECURSIVE digits(_)
digits(n) ==
    IF n < 10 THEN <<Digit(n)>> ELSE digits(n \div 10) \o <<Digit(n % 10)>>

\* b'%d' % n
decimal(n) == IF n < 0 THEN <<"-">> \o digits(-n) ELSE digits(n)

\* _write_response: the bytes given to writer.write, in order, and the
\* exception raised ("ok": none).  For a value of another type the bytes
\* formatting of the message itself raises TypeError; what was written for
\* the list so far stays written.
RECURSIVE write_response(_)
write_response(data) ==
    CASE data.t = "bytes" ->
            [out |-> <<"$">> \o decimal(Len(data.b)) \o CRLF \o data.b \o CRLF,
             exc |-> "ok"]
      [] data.t = "int" ->
            [out |-> <<":">> \o decimal(data.n) \o CRLF, exc |-> "ok"]
      [] data.t = "Error" ->
            [out |-> <<"-">> \o data.b \o CRLF, exc |-> "ok"]
      [] data.t = "list" ->
            LET RECURSIVE items(_)
                items(i) ==
                    IF i > Len(data.items) THEN [out |-> <<>>, exc |-> "ok"]
                    ELSE LET r == write_response(data.items[i]) IN
                         IF r.exc # "ok" THEN r
                         ELSE LET rest == items(i + 1) IN
                              [out |-> r.out \o rest.out, exc |-> rest.exc]
            IN [out |-> <<"*">> \o decimal(Len(data.items)) \o CRLF
                        \o items(1).out,
                exc |-> items(1).exc]
      [] data.t = "None" ->
            [out |-> <<"$", "-", "1">> \o CRLF, exc |-> "ok"]
      [] OTHER -> [out |-> <<>>, exc |-> "TypeError"]

\* bytes.strip()
IsSpace(c) == c \in {" ", "\t", CR, LF}
RECURSIVE strip(_)
strip(b) ==
    IF b = <<>> THEN b
    ELSE IF IsSpace(Head(b)) THEN strip(Tail(b))
    ELSE IF IsSpace(b[Len(b)]) THEN strip(SubSeq(b, 1, Len(b) - 1))
    ELSE b

\* the number a sequence of digits spells
RECURSIVE number(_)
number(ds) ==
    IF ds = <<>> THEN 0
    ELSE 10 * number(SubSeq(ds, 1, Len(ds) - 1)) + DigitValue(ds[Len(ds)])

\* int(b) of stripped bytes: ok is FALSE where int raises ValueError
int(b) ==
    LET signed == b # <<>> /\ Head(b) \in {"-", "+"}
        ds == IF signed THEN Tail(b) ELSE b
    IN
    IF ds # <<>> /\ \A i \in 1..Len(ds) : IsDigit(ds[i])
    THEN [ok |-> TRUE,
          n |-> IF signed /\ Head(b) = "-" THEN 0 - number(ds) ELSE number(ds)]
    ELSE [ok |-> FALSE, n |-> 0]

\* StreamReader.feed_data with the next chunk
feed(rs) == [buf |-> rs.buf \o Head(rs.chunks), chunks |-> Tail(rs.chunks)]

RECURSIVE concat(_)
concat(cs) == IF cs = <<>> THEN <<>> ELSE Head(cs) \o concat(Tail(cs))

\* StreamReader.read(n): with an empty buffer it waits for the next chunk
\* (or EOF), then returns at most n of the bytes buffered; n < 0 reads to
\* EOF, n = 0 returns nothing
read(rs, n) ==
    IF n = 0 THEN [data |-> <<>>, rs |-> rs]
    ELSE IF n < 0
    THEN [data |-> rs.buf \o concat(rs.chunks), rs |-> NoStream]
    ELSE LET s == IF rs.buf = <<>> /\ rs.chunks # <<>> THEN feed(rs) ELSE rs
             k == IF n < Len(s.buf) THEN n ELSE Len(s.buf)
         IN
         [data |-> SubSeq(s.buf, 1, k),
          rs |-> [s EXCEPT !.buf = SubSeq(s.buf, k + 1, Len(s.buf))]]

\* StreamReader.readline(): waits until the buffer holds a line feed and
\* returns the bytes up to and with it; at EOF it returns what is left
RECURSIVE readline(_)
readline(rs) ==
    IF \E i \in 1..Len(rs.buf) : rs.buf[i] = LF
    THEN LET k == CHOOSE i \in 1..Len(rs.buf) :
                     /\ rs.buf[i] = LF
                     /\ \A j \in 1..(i - 1) : rs.buf[j] # LF
         IN [data |-> SubSeq(rs.buf, 1, k),
             rs |-> [rs EXCEPT !.buf = SubSeq(rs.buf, k + 1, Len(rs.buf))]]
    ELSE IF rs.chunks # <<>> THEN readline(feed(rs))
    ELSE [data |-> rs.buf, rs |-> [rs EXCEPT !.buf = <<>>]]

Returned(v, rs) == [exc |-> "ok", msg |-> "", value |-> v, rs |-> rs]
Raises(e, m, rs) == [exc |-> e, msg |-> m, value |-> PyNone, rs |-> rs]

\* _process_string
process_string(rs) ==
    LET l == readline(rs)
        length == int(strip(l.data))
    IN
    IF ~length.ok THEN Raises("ValueError", "", l.rs)
    ELSE IF length.n = -1 THEN Returned(PyNone, l.rs)
    ELSE LET r == read(l.rs, length.n + 2) IN
         Returned(PyBytes(SubSeq(r.data, 1, Len(r.data) - 2)), r.rs)

\* _process_integer
process_integer(rs) ==
    LET l == readline(rs)
        n == int(strip(l.data))
    IN
    IF n.ok THEN Returned(PyInt(n.n), l.rs)
    ELSE Raises("ValueError", "", l.rs)

\* process_reader, with _process_simple_string, _process_error and
\* _process_array
RECURSIVE process_reader(_)
process_reader(rs) ==
    LET c == read(rs, 1) IN
    IF c.data = <<>> THEN Raises("ConnectionError", "Empty request", c.rs)
    ELSE
    CASE c.data = <<"+">> ->
            LET l == readline(c.rs) IN Returned(PyBytes(strip(l.data)), l.rs)
      [] c.data = <<"-">> ->
            LET l == readline(c.rs) IN Returned(PyError(strip(l.data)), l.rs)
      [] c.data = <<":">> -> process_integer(c.rs)
      [] c.data = <<"$">> -> process_string(c.rs)
      [] c.data = <<"*">> ->
            LET l == readline(c.rs)
                num_elements == int(strip(l.data))
                RECURSIVE elements(_, _)
                elements(s, k) ==
                    IF k = 0 THEN [exc |-> "ok", msg |-> "", items |-> <<>>,
                                   rs |-> s]
                    ELSE LET e == process_reader(s) IN
                         IF e.exc # "ok"
                         THEN [exc |-> e.exc, msg |-> e.msg, items |-> <<>>,
                               rs |-> e.rs]
                         ELSE LET rest == elements(e.rs, k - 1) IN
                              [rest EXCEPT !.items = <<e.value>> \o @]
            IN
            IF ~num_elements.ok THEN Raises("ValueError", "", l.rs)
            ELSE IF num_elements.n = -1
            THEN Returned(PyList(<<PyNone>>), l.rs)
            ELSE IF num_elements.n < 0
            THEN Raises("BadRequest", "Bad array length", l.rs)
            ELSE LET es == elements(l.rs, num_elements.n) IN
                 IF es.exc # "ok" THEN Raises(es.exc, es.msg, es.rs)
                 ELSE Returned(PyList(es.items), es.rs)
      [] OTHER -> Raises("BadRequest", "Bad first byte", c.rs)

\* ------------------------------------------------ what goes over the wire
BulkPayloads == {<<>>, <<"a">>, <<"a", " ">>, <<CR, LF>>}
ErrorMessages == {<<>>, <<"a">>, <<" ", "a">>}
Numbers == {0 - 12, 0 - 1, 0, 7, 10}

Atoms ==
    {PyBytes(b) : b \in BulkPayloads} \cup {PyError(m) : m \in ErrorMessages}
        \cup {PyInt(n) : n \in Numbers} \cup {PyNone}

\* the elements of the lists sent: some atoms and some lists of atoms
Elements ==
    {PyBytes(<<"a">>), PyInt(7), PyNone, PyError(<<"a">>),
     PyList(<<PyBytes(<<"a">>), PyNone>>)}

Lists == {PyList(xs) : xs \in UNION {[1..n -> Elements] : n \in 0..2}}

CodecValues == Atoms \cup Lists

\* the bytes of the frame that follows the one decoded
Tails == {<<>>, <<":", "7", CR, LF>>}

\* the arguments of Connection.execute: bytes, text, numbers, and a float
Arguments ==
    {PyBytes(<<"G", "E", "T">>), PyBytes(<<"a">>), PyStr(<<"a", "U+E9">>),
     PyInt(7), PyInt(0 - 12), PyFloat}
ArgumentLists == UNION {[1..n -> Arguments] : n \in 1..2}

\* str.encode(): the UTF-8 bytes of a text, a byte outside ASCII by its
\* two hexadecimal digits
RECURSIVE encode(_)
encode(text) ==
    IF text = <<>> THEN <<>>
    ELSE (IF Head(text) = "U+E9" THEN <<"C3", "A9">> ELSE <<Head(text)>>)
            \o encode(Tail(text))

\* FLayer._to_bytes: the bytes an argument of a command stands for
to_bytes(arg) ==
    CASE arg.t = "bytes" -> [exc |-> "ok", b |-> arg.b]
      [] arg.t = "str" -> [exc |-> "ok", b |-> encode(arg.b)]
      [] arg.t = "int" -> [exc |-> "ok", b |-> decimal(arg.n)]
      [] OTHER -> [exc |-> "ClientError", b |-> <<>>]

\* the places at which the bytes sent are cut into the chunks that arrive
Cuts(n) ==
    {c \in [1..MaxCuts -> 0..n] : \A k \in 1..(MaxCuts - 1) : c[k] <= c[k + 1]}

Split(bs, c) ==
    SelectSeq([k \in 1..(MaxCuts + 1) |->
                  SubSeq(bs, (IF k = 1 THEN 0 ELSE c[k - 1]) + 1,
                         IF k = MaxCuts + 1 THEN Len(bs) ELSE c[k])],
              LAMBDA piece : piece # <<>>)

\* process_writer(writer, v) by one side; the frame and the bytes after it
\* reach the other side's StreamReader cut at c
WriterSend(v, tail, c) ==
    /\ wpc = "idle"
    /\ LET r == write_response(v) IN
       /\ sent' = [by |-> "process_writer", v |-> v, exc |-> r.exc,
                   tail |-> tail, pieces |-> Len(Split(r.out \o tail, c))]
       /\ reader' = [buf |-> <<>>, chunks |-> Split(r.out \o tail, c)]
    /\ wpc' = "sent"
    /\ UNCHANGED <<clientVars, storeVars, handlerVars, sharedVars, got>>

\* Connection.execute(*args) on a connected stream:
\* process_writer(self._stream.writer, args)
Execute(args) ==
    /\ wpc = "idle"
    /\ LET r == write_response(PyList(args)) IN
       /\ sent' = [by |-> "execute", v |-> PyList(args), exc |-> r.exc,
                   tail |-> <<>>, pieces |-> 1]
       /\ reader' = [buf |-> <<>>,
                     chunks |-> IF r.out = <<>> THEN <<>> ELSE <<r.out>>]
    /\ wpc' = "sent"
    /\ UNCHANGED <<clientVars, storeVars, handlerVars, sharedVars, got>>

\* process_reader(reader) by the other side
ReaderDecode ==
    /\ wpc = "sent"
    /\ LET r == process_reader(reader) IN
       /\ got' = [exc |-> r.exc, msg |-> r.msg, value |-> r.value]
       /\ reader' = r.rs
    /\ wpc' = "decoded"
    /\ UNCHANGED <<clientVars, storeVars, handlerVars, sharedVars, sent>>

InitCodec ==
    /\ ClientInit /\ max_size = 1 /\ min_size = 1
    /\ StoreInit
    /\ HandlerInit
    /\ CodecIdle
    /\ SharedIdle

NextCodec ==
    \/ \E v \in CodecValues, tail \in Tails :
          \E c \in Cuts(Len(write_response(v).out \o tail)) :
             WriterSend(v, tail, c)
    \/ \E args \in ArgumentLists : Execute(args)
    \/ ReaderDecode

SpecCodec == InitCodec /\ [][NextCodec]_vars

\* ===================================================== handlers on one store
\* Several handlers, each on its own socket, call process_command on the
\* one RadishStore of the server.  The handlers are tasks of one event
\* loop: a task that runs keeps the loop until it suspends in an await.
\* process_command is taken apart into the steps of its code (the writes of
\* mset one by one, the count and the clear of flush) so that a suspension
\* between two of them would show.

SharedCommands ==
    {[cmd |-> "MSET", args |-> <<"a", "a", "bb", "a">>],
     [cmd |-> "MSET", args |-> <<"a", "bb", "bb", "bb">>],
     [cmd |-> "FLUSHDB", args |-> <<>>],
     [cmd |-> "SET", args |-> <<"a", "bb">>],
     [cmd |-> "MGET", args |-> <<"a", "bb">>]}

\* (variant: a store whose commands await between their steps; used to show
\* that C29 depends on process_command running without a suspension)
suspends_between_steps(command) == TRUE

\* whether the code of a command holds an await between its steps:
\* RadishStore's methods are plain functions
suspends(command) == FALSE

\* the next step of the command c on the store st: one self.set of mset's
\* loop, the len or the clear of flush, the whole call of any other command
command_step(st, c) ==
    CASE upper(c.cmd) = "MSET" /\ Len(c.args) # 0 /\ Len(c.args) % 2 = 0 ->
            [store |-> set(st, <<c.args[2 * c.i + 1], c.args[2 * c.i + 2]>>).store,
             c |-> [c EXCEPT !.i = @ + 1,
                             !.pc = IF 2 * (c.i + 1) = Len(c.args)
                                    THEN "done" ELSE "run",
                             !.value = Bulk("OK")]]
      [] upper(c.cmd) = "FLUSHDB" /\ Len(c.args) = 0 ->
            IF c.i = 0
            THEN [store |-> st,
                  c |-> [c EXCEPT !.i = 1,
                                  !.value = IntV(Cardinality(DOMAIN st))]]
            ELSE [store |-> EmptyStore, c |-> [c EXCEPT !.pc = "done"]]
      [] OTHER ->
            LET res == process_command(st, c.cmd, c.args) IN
            [store |-> res.store,
             c |-> [c EXCEPT !.pc = "done", !.value = outcome(res).answer]]

\* Handler.run of h resumed with a decoded request, up to the call of
\* process_command; the loop runs one task at a time
SharedResume(h, r) ==
    /\ spc[h].pc = "read"
    /\ running = 0
    /\ Len(slog) + Cardinality({g \in SharedHandlers : spc[g].pc = "run"})
          < MaxShared
    /\ spc' = [spc EXCEPT ![h] = [pc |-> "run", cmd |-> r.cmd,
                                  args |-> r.args, i |-> 0, value |-> Null]]
    /\ running' = h
    /\ UNCHANGED <<clientVars, codecVars, handlerVars, storeVars, slog>>

\* the next step of h's command; after the last one the reply is written
\* and h suspends in process_reader again
SharedStep(h) ==
    /\ spc[h].pc = "run"
    /\ running \in {0, h}
    /\ LET r == command_step(store, spc[h]) IN
       /\ store' = r.store
       /\ IF r.c.pc = "done"
          THEN /\ slog' = Append(slog, [h |-> h, cmd |-> r.c.cmd,
                                        args |-> r.c.args,
                                        value |-> r.c.value])
               /\ spc' = [spc EXCEPT ![h] = NoCommand]
               /\ running' = 0
          ELSE /\ spc' = [spc EXCEPT ![h] = r.c]
               /\ running' = IF suspends(r.c.cmd) THEN 0 ELSE h
               /\ UNCHANGED slog
    /\ UNCHANGED <<clientVars, codecVars, handlerVars, last, latest>>

InitShared ==
    /\ ClientInit /\ max_size = 1 /\ min_size = 1
    /\ StoreInit
    /\ HandlerInit
    /\ CodecIdle
    /\ SharedIdle

NextShared ==
    \/ \E h \in SharedHandlers, r \in SharedCommands : SharedResume(h, r)
    \/ \E h \in SharedHandlers : SharedStep(h)

SpecShared == InitShared /\ [][NextShared]_vars

\* ------------------------------------------------------------------ claims
\* C1: in a pool built with max_size connections, at most max_size
\* borrowers hold a connection at the same time.
C1_AtMostMaxSizeHolders ==
    Cardinality({b \in Borrowers : bcon[b] # NoCon}) <= max_size

\* C2: when the scope of the guard is left on an inited pool that is not
\* closed, the connection the borrower held is on the LIFO again and its
\* acquired flag is false, connected or not, used or not.
C2_GuardExitReleases ==
    [][\A b \in Borrowers :
          (/\ bpc[b] \in {"holding", "failed", "close_connecting",
                          "close_awaitw"}
           /\ bpc'[b] = "exited"
           /\ inited /\ ~closed /\ ~closed')
          => (InQueue(queue', bcon[b]) /\ ~acquired'[bcon[b]])]_vars

\* C3: on a pool that is not closed, an acquire followed at once by the
\* release of the connection it returned leaves the LIFO with the
\* connections it held before the acquire, the released one on top (the
\* next acquire returns it) and not marked acquired.
C3_AcquireReleaseLifo ==
    [][\A b \in Borrowers :
          (bcon[b] = NoCon /\ bcon'[b] # NoCon /\ ~closed)
          => LET c == bcon'[b]
                 s == release_do(CS', c)
             IN /\ c = LifoTop(queue)
                /\ release_exc(CS') = "ok"
                /\ {s.queue[i] : i \in 1..Len(s.queue)}
                      = {queue[i] : i \in 1..Len(queue)}
                /\ Len(s.queue) = Len(queue)
                /\ LifoTop(s.queue) = c
                /\ ~s.acquired[c]]_vars

\* (a close of the pool between the acquire and the release is another pool
\* operation: release then raises, see C4)
\* C3 witness: borrower 1 released its connection itself and the LIFO of
\* two connections is what it was before the acquire; borrower 2, the next
\* to acquire, holds that same connection.
C3_Witness ==
    /\ max_size = 2
    /\ bpc[1] = "released" /\ bres[1] = "ok"
    /\ bpc[2] = "holding" /\ bcon[2] = max_size
    /\ queue = <<1>>

\* C4: once pool.close() has completed (closed is set), an acquire raises
\* ClientError and takes nothing from the LIFO.
C4_AcquireAfterCloseFails ==
    [][\A b \in Borrowers :
          (closed /\ bpc[b] = "idle" /\ bpc'[b] # "idle")
          => (/\ bpc'[b] = "error"
              /\ bres'[b] = "ClientError"
              /\ bcon'[b] = NoCon
              /\ queue' = queue)]_vars

\* C4 witness: borrower 1 acquired from the inited pool and left, the pool
\* was closed, and borrower 2, who came after borrower 1, was turned away
\* with the LIFO still holding every connection.
C4_Witness ==
    /\ closed
    /\ bpc[1] \in {"exited", "released"}
    /\ bpc[2] = "error" /\ bres[2] = "ClientError"
    /\ Len(queue) = max_size

\* C5: an execute that a borrower starts on the connection it holds after
\* pool.close() has completed raises ClientError: it never returns a reply.
C5_ExecuteAfterCloseFails ==
    [][\A b \in Borrowers :
          (afterClose[b] /\ bpc[b] = "reading" /\ bpc'[b] # "reading"
             /\ bpc'[b] # "connecting")
          => (bpc'[b] = "failed" /\ bres'[b] = "ClientError")]_vars

C7_InitOpensLastMinSize ==
    [][(~inited /\ inited')
          => \A c \in Conns :
                (waiting'[c] # "none") <=> (c > max_size - min_size)]_vars

\* C8: a call of init on a pool whose closed flag is set raises
\* ClientError("Pool is closed").
C8_InitOnClosedRaises == closed => init_outcome = "raised"

\* C9: however the calls of init overlap, a warm-up connection is opened
\* at most once: a connect task of init opens a connection nobody opened.
C9_InitOpensOnce ==
    [][\A i \in Initers : \A c \in Conns :
          (c \in ipending[i] /\ c \notin ipending'[i])
          => waiting[c] = "none"]_vars

\* C10: one call of execute reconnects and retries at most once.
C10_AtMostOneRetry == \A b \in Borrowers : retries[b] <= 1

\* C11: the idle task of a connection cannot fire while an execute on that
\* connection is in flight: it is not pending from the first line of
\* execute until the reply has been read.
C11_IdleTaskIdleInFlight ==
    \A b \in Borrowers :
       bpc[b] \in {"connecting", "reading", "quit_connecting"}
       => waiting[bcon[b]] # "armed"

\* C15: GET k returns the value of the latest SET k v or MSET pair for k
\* that no DEL k or FLUSHDB followed, null when there is none; EXISTS k is
\* 1 exactly when there is one.
C15_GetReturnsLatestSet ==
    \A k \in Bytes :
       /\ get(store, <<k>>).value
             = (IF latest[k] = NoValue THEN Null ELSE Bulk(latest[k]))
       /\ exists(store, <<k>>).value
             = IntV(IF latest[k] = NoValue THEN 0 ELSE 1)

\* C15 witness: GET a has just returned bb, the latest value set for a,
\* while the other key has none (never set, or deleted since).
C15_Witness ==
    /\ last.cmd = "GET" /\ last.args = <<"a">> /\ last.value = Bulk("bb")
    /\ latest["a"] = "bb" /\ latest["bb"] = NoValue

\* C16: DEL k returns 1 and removes k when k is present, returns 0 and
\* changes nothing when k is absent; afterwards GET k is null, EXISTS k is
\* 0, another DEL k returns 0, and every other key is as it was.
C16_DelRemovesOneKey ==
    [][(upper(last'.cmd) = "DEL" /\ Len(last'.args) = 1)
          => LET k == last'.args[1] IN
             /\ last'.exc = "ok"
             /\ k \in DOMAIN store => last'.value = IntV(1)
             /\ k \notin DOMAIN store
                   => (last'.value = IntV(0) /\ store' = store)
             /\ k \notin DOMAIN store'
             /\ \A x \in Bytes \ {k} :
                   dict_get(store', x) = dict_get(store, x)
             /\ get(store', <<k>>).value = Null
             /\ exists(store', <<k>>).value = IntV(0)
             /\ delete(store', <<k>>).value = IntV(0)]_vars

\* C16 witness: DEL a has just returned 1 and the other key is still there.
C16_Witness ==
    /\ last.cmd = "DEL" /\ last.args = <<"a">> /\ last.value = IntV(1)
    /\ DOMAIN store = {"bb"}

\* C17: FLUSHDB returns the number of keys held before the call and leaves
\* the store empty; a FLUSHDB right after returns 0.
C17_FlushReturnsCount ==
    [][(upper(last'.cmd) = "FLUSHDB" /\ Len(last'.args) = 0)
          => /\ last'.exc = "ok"
             /\ last'.value = IntV(Cardinality(DOMAIN store))
             /\ store' = EmptyStore
             /\ flush(store', <<>>).value = IntV(0)]_vars

\* C17 witness: FLUSHDB has just returned 2 and the store is empty.
C17_Witness ==
    /\ last.cmd = "FLUSHDB" /\ last.value = IntV(2)
    /\ store = EmptyStore

\* C18: MGET right after an MSET with distinct keys returns a list as long
\* as its keys, in their order: the MSET value at each position asking for
\* an MSET key, null at each position asking for a key the store lacks.
C18_MgetAfterMset ==
    [][(/\ upper(last.cmd) = "MSET" /\ last.exc = "ok"
        /\ \A i, j \in 1..(Len(last.args) \div 2) :
              last.args[2 * i - 1] = last.args[2 * j - 1] => i = j
        /\ upper(last'.cmd) = "MGET" /\ Len(last'.args) >= 1)
          => /\ last'.exc = "ok"
             /\ last'.value.t = "array"
             /\ Len(last'.value.items) = Len(last'.args)
             /\ \A p \in 1..Len(last'.args) :
                   /\ \A i \in 1..(Len(last.args) \div 2) :
                         last.args[2 * i - 1] = last'.args[p]
                         => last'.value.items[p] = Bulk(last.args[2 * i])
                   /\ last'.args[p] \notin DOMAIN store
                         => last'.value.items[p] = Null]_vars

\* C18 witness: right after an MSET, MGET bb a bb has returned the values
\* of bb, a and bb in that order.
C18_Witness ==
    /\ last.cmd = "MGET" /\ last.afterMset
    /\ last.args = <<"bb", "a", "bb">>
    /\ last.value = Arr(<<Bulk("a"), Bulk("bb"), Bulk("a")>>)

\* C19: MSET with no argument or an odd number of arguments raises
\* BadRequest and leaves the store as it was.
C19_MsetOddArityWritesNothing ==
    [][(/\ upper(last'.cmd) = "MSET"
        /\ (Len(last'.args) = 0 \/ Len(last'.args) % 2 = 1))
          => (last'.exc = "BadRequest" /\ store' = store)]_vars

\* C19 witness: MSET a bb a has just raised BadRequest on a store that
\* holds neither key.
C19_Witness ==
    /\ last.cmd = "MSET" /\ last.args = <<"a", "bb", "a">>
    /\ last.exc = "BadRequest"
    /\ store = EmptyStore

\* C20: a call whose argument count breaks the arity of its command (GET,
\* DEL, ECHO, STRLEN: 1; SET: 2; FLUSHDB: 0; PING: 0 or 1; EXISTS, MGET:
\* at least 1; MSET: even, at least 2) raises BadRequest and leaves the
\* store as it was.
C20_ArityViolationIsBadRequest ==
    [][LET c == upper(last'.cmd)
           n == Len(last'.args)
           arityOk ==
              CASE c \in {"GET", "DEL", "ECHO", "STRLEN"} -> n = 1
                [] c = "SET" -> n = 2
                [] c = "FLUSHDB" -> n = 0
                [] c = "PING" -> n \in {0, 1}
                [] c \in {"EXISTS", "MGET"} -> n >= 1
                [] c = "MSET" -> n >= 2 /\ n % 2 = 0
                [] OTHER -> TRUE
       IN (last' # last /\ ~arityOk)
          => (last'.exc = "BadRequest" /\ store' = store)]_vars

\* a QUIT request, in any letter case and with any arguments
IsQuit(r) == r.kind = "array" /\ upper(r.cmd) = "QUIT"

\* C12: a handler serves its socket one request at a time and in order:
\* every request it has decoded, other than QUIT, has exactly one reply
\* written to the socket, and the replies are in the order of the requests.
C12_OneReplyPerRequest ==
    /\ Len(outbox) <= Len(served)
    /\ \A i \in 1..Len(served) :
          ~IsQuit(served[i].req) =>
             /\ served[i].reply # NoReply
             /\ i <= Len(outbox)
             /\ outbox[i] = served[i].reply

\* C13: when the store raises RadishBadRequest for a request (unknown
\* command, wrong argument count) on a socket the handler has not closed,
\* the handler writes one Error frame with the exception's message, leaves
\* the store as it was and stays in its loop with the socket open; the next
\* valid request on that socket gets its normal reply.
C13_BadRequestKeepsConnection ==
    [][(/\ hpc = "read"
        /\ Len(served') = Len(served) + 1
        /\ ~wclosed
        /\ Head(inbox).kind = "array")
       =>
       LET r == Head(inbox)
           res == process_command(store, r.cmd, r.args)
       IN
       /\ res.exc = "BadRequest" =>
             /\ outbox' = Append(outbox, Error(res.msg))
             /\ store' = store
             /\ hpc' = "read"
             /\ hactive'
             /\ ~wclosed'
       /\ (/\ res.exc = "ok"
           /\ served # <<>>
           /\ served[Len(served)].req.kind = "array"
           /\ served[Len(served)].reply.t = "error") =>
             /\ outbox' = Append(outbox, res.value)
             /\ store' = res.store
      ]_vars

\* C13 witness: an unknown command was answered with its Error frame and
\* the SET that followed it on the same socket with its normal reply
C13_Witness ==
    /\ Len(served) = 2
    /\ served[1].req = Request("array", "BAD", <<>>)
    /\ served[2].req = Request("array", "SET", <<"a", "bb">>)
    /\ outbox = <<Error("Bad command"), served[2].reply>>
    /\ served[2].reply.t # "error"
    /\ served[2].reply # NoReply
    /\ get(store, <<"a">>).value = Bulk("bb")
    /\ hpc = "read"
    /\ hactive

C22_LifoBoundedNoDuplicates ==
    /\ Len(queue) <= max_size
    /\ \A i, j \in 1..Len(queue) : i # j => queue[i] # queue[j]
    /\ \A b \in Borrowers : bres[b] # "QueueFull"
    /\ \A c \in AllConns : waiting[c] # "failedQF"
    /\ \A k \in PoolClosers : kerr[k] # "QueueFull"

\* C23: once execute(b"QUIT") has closed a connection's writer, by whatever
\* caller, the connection is marked disconnected, so that the next execute
\* connects before it writes.
C23_QuitMarksDisconnected ==
    \A c \in AllConns : stream[c] = "wclosed" => ~connected[c]

\* C25: a decoded request that is no valid command invocation (a value
\* that is no array, an empty array, the null array, an array whose first
\* element is no bulk string), on a socket the handler has not closed, is
\* answered with one Error frame, and the handler stays in its loop with
\* the socket open and the store unchanged.
C25_InvalidInvocationAnswered ==
    [][(/\ hpc = "read"
        /\ Len(served') = Len(served) + 1
        /\ ~wclosed
        /\ Head(inbox).kind \in {"notlist", "empty", "nullarray", "intfirst"})
       =>
       /\ Len(outbox') = Len(outbox) + 1
       /\ outbox'[Len(outbox')].t = "error"
       /\ SubSeq(outbox', 1, Len(outbox)) = outbox
       /\ store' = store
       /\ hpc' = "read"
       /\ hactive'
       /\ ~wclosed'
      ]_vars

C27_NothingServedAfterTimerClose ==
    \A i \in 1..Len(served) : served[i].open

\* C28: active_connections equals the number of handlers started and not
\* yet ended, whatever way the handler ended, and is 0 once it has ended.
C28_CounterMatchesHandlers ==
    active_connections = IF hpc \in {"read", "returned"} THEN 1 ELSE 0

\* what is left of a stream: the bytes buffered and those still to arrive
Remaining(rs) == rs.buf \o concat(rs.chunks)

\* C21: for every value v built from bytes, integers, Error, None and
\* nested lists of these, process_reader on the bytes _write_response
\* produced for v returns v, and leaves in the stream exactly the bytes that
\* came after the frame.
C21_DecodeEncodeRoundTrip ==
    (wpc = "decoded" /\ sent.by = "process_writer" /\ sent.pieces = 1) =>
       /\ got.exc = "ok"
       /\ got.value = sent.v
       /\ Remaining(reader) = sent.tail

\* C24: the frame Connection.execute writes is an array of bulk strings:
\* bytes arguments as they are, text arguments as their UTF-8 bytes, integer
\* arguments as their decimal digits; with an argument of another type
\* execute raises RadishClientError.
C24_ExecuteSendsBulkStrings ==
    (wpc = "sent" /\ sent.by = "execute") =>
       LET args == sent.v.items IN
       IF \A i \in 1..Len(args) : to_bytes(args[i]).exc = "ok"
       THEN /\ sent.exc = "ok"
            /\ process_reader(reader).exc = "ok"
            /\ process_reader(reader).value =
                  PyList([i \in 1..Len(args) |-> PyBytes(to_bytes(args[i]).b)])
       ELSE sent.exc = "ClientError"

\* C30: process_reader returns the same value and leaves the same bytes in
\* the stream however the bytes of the frame are cut into arriving chunks.
C30_DecodeIgnoresChunking ==
    (wpc = "decoded" /\ sent.by = "process_writer") =>
       LET whole == process_reader(
                       [buf |-> <<>>,
                        chunks |-> <<write_response(sent.v).out \o sent.tail>>])
       IN
       /\ got.exc = whole.exc
       /\ got.value = whole.value
       /\ Remaining(reader) = Remaining(whole.rs)

\* the store after the first k commands of a log, run one after the other
RECURSIVE replay(_, _)
replay(log, k) ==
    IF k = 0 THEN EmptyStore
    ELSE process_command(replay(log, k - 1), log[k].cmd, log[k].args).store

\* C29: with several handlers on one store every process_command call is
\* one atomic step: at most one handler is inside a command, and whenever
\* none is, the store and every reply are those of the completed commands
\* run one after the other as whole commands.
C29_CommandsAtomic ==
    /\ Cardinality({h \in SharedHandlers : spc[h].pc = "run"}) <= 1
    /\ (\A h \in SharedHandlers : spc[h].pc = "read") =>
          /\ store = replay(slog, Len(slog))
          /\ \A k \in 1..Len(slog) :
                slog[k].value =
                   outcome(process_command(replay(slog, k - 1), slog[k].cmd,
                                           slog[k].args)).answer

\* C29 witness: one handler's MSET wrote both its keys, then another
\* handler's FLUSHDB counted both and cleared the store
C29_Witness ==
    /\ Len(slog) = 2
    /\ slog[1].h # slog[2].h
    /\ slog[1].cmd = "MSET"
    /\ slog[2].cmd = "FLUSHDB"
    /\ slog[2].value = IntV(2)
    /\ store = EmptyStore

\* C31: exclusive ownership: no two borrowers hold the same connection, and
\* a connection a borrower holds and has not released is not on the LIFO.
C31_ExclusiveOwnership ==
    /\ \A b1, b2 \in Borrowers :
          (b1 # b2 /\ bcon[b1] # NoCon /\ bcon[b2] # NoCon) =>
             bcon[b1] # bcon[b2]
    /\ \A b \in Borrowers :
          bpc[b] = "holding" => ~InQueue(queue, bcon[b])

\* C32: from the moment ConnectionPool.close has passed its check and
\* started to close the connections (called by a task of its own or by an
\* execute whose read failed), no borrower is handed a connection.
C32_NoAcquireOnceCloseBegan ==
    [][(\/ upc \in {"gather", "done"}
        \/ closed
        \/ \E k \in Borrowers : bpc[k] = "pclose")
       => \A b \in Borrowers : bcon[b] = NoCon => bcon'[b] = NoCon
      ]_vars

\* C35: a Connection owns at most one open socket: when a connect() of
\* _init's gather completes on a connection, the connection does not
\* already hold an open socket that the new stream replaces.
C35_OneSocketPerConnection ==
    [][\A i \in Initers, c \in AllConns :
          (ipc[i] = "gather" /\ c \in ipending[i] /\ c \notin ipending'[i])
             => ~(connected[c] /\ stream[c] = "open")
      ]_vars

\* C34: when the writer fails on a value of an unsupported type (the value
\* itself or an element of its list), no byte of the frame has been given
\* to the stream: the stream is left at a frame boundary.
C34_FailedEncodeWritesNothing ==
    (wpc = "sent" /\ sent.exc # "ok") => Remaining(reader) = <<>>

\* C33: on an inited pool that is never closed, with every borrower leaving
\* its guard scope in the end, every acquire completes: a borrower blocked
\* in _queue.get() is eventually handed a connection.
C33_EveryAcquireCompletes ==
    \A b \in Borrowers : (bpc[b] = "blocked") ~> (bpc[b] # "blocked")

====
